---- MODULE Spec2Model ----
(***************************************************************************)
(* Model of aws/resource_aws_iam_group_membership.go: the Create, Read,    *)
(* Update and Delete handlers of the aws_iam_group_membership resource,    *)
(* stepping at the granularity of one IAM API call, together with the IAM  *)
(* group they talk to and other actors that change that group.             *)
(***************************************************************************)
EXTENDS Integers, Sequences, FiniteSets, TLC

\* Number of distinct user names the configuration and the group draw from.
NumUsers == 3
\* Number of users IAM returns per GetGroup page.
PageSize == 1
\* Number of changes other actors make to the group per handler call (while it
\* runs or after it returned, before the next handler is entered).
MaxOther == 1

Users == 1..NumUsers

\* The nil marker of the first GetGroup request (a marker is otherwise the
\* last user name of the page that returned it).
NoMarker == 0

\* d.Get("name"): the configured logical name.
Name == "name"

\* d.Get("group") of the configuration: the name of the IAM group.
GroupName == "my-group"

\* resource.UniqueId(): a generated identity.
UniqueId == "terraform-unique-id"

\* Identifiers Import is called with.
ImportIds == {"", GroupName}

VARIABLES
    exists,      \* IAM: the group exists
    live,        \* IAM: the users that are members of the group
    id,          \* d.Id()
    members,     \* the "users" attribute of the record (state)
    group,       \* the "group" attribute of the record
    desired,     \* the "users" attribute the handler reads with d.Get: the
                 \* configuration's in Create and Update, the state's otherwise
    op,          \* handler being run: "none", "Create", "Read", "Update", "Delete",
                 \* "Import"
    pc,          \* position in the handler
    ret,         \* what the handler returned: "none" (running), "nil", "error"
    remove,      \* removeUsersFromGroup: users not yet visited by the loop
    add,         \* addUsersToGroup: users not yet visited by the loop
    ul,          \* Read: user names collected so far
    marker,      \* Read: marker of the next GetGroup request
    log,         \* API calls issued by the handler being run, in order
    old,         \* the record and the group when the handler was entered
    others       \* changes other actors made to the group since the handler
                 \* was entered

vars == <<exists, live, id, members, desired, group, op, pc, ret, remove, add, ul,
          marker, log, old, others>>

aws == <<exists, live>>

\* Another actor changed the group since the handler was entered.
interfered == others > 0
Range(s) == {s[i] : i \in 1..Len(s)}

Max(S) == CHOOSE x \in S : \A y \in S : y <= x
Min(S) == CHOOSE x \in S : \A y \in S : x <= y

RECURSIVE SortedSeq(_)
\* The users of S as IAM lists them (ascending user name).
SortedSeq(S) == IF S = {} THEN <<>> ELSE <<Min(S)>> \o SortedSeq(S \ {Min(S)})

(***************************************************************************)
(* The IAM service as the handlers call it.                                *)
(***************************************************************************)

\* One entry of log: an API call, its argument (a user name, or the marker of
\* a GetGroup request) and its answer.
Call(name, arg, res, page, trunc, next) ==
    [call |-> name, arg |-> arg, res |-> res, page |-> page, trunc |-> trunc,
     next |-> next]

UserCall(name, u, res) == Call(name, u, res, <<>>, FALSE, NoMarker)

\* GetGroup(GroupName, Marker): the members listed after the marker.
RestAfter(m) == {u \in live : u > m}

\* resp.Users of the page requested with marker m.
PageOf(m) ==
    LET rest == SortedSeq(RestAfter(m))
    IN  SubSeq(rest, 1, IF Len(rest) < PageSize THEN Len(rest) ELSE PageSize)

\* resp.IsTruncated of the page requested with marker m.
TruncatedAt(m) == Cardinality(RestAfter(m)) > PageSize

\* resp.Marker of the page requested with marker m.
MarkerAfter(m) == IF TruncatedAt(m) THEN Max(Range(PageOf(m))) ELSE NoMarker

\* Answers GetGroup can give.
GetGroupAnswers == (IF exists THEN {"ok"} ELSE {"NoSuchEntity"}) \cup {"error"}

\* Answers AddUserToGroup can give (a missing group or user is an error like
\* any other to addUsersToGroup).
AddAnswers(u) == (IF exists THEN {"ok"} ELSE {}) \cup {"error"}

\* Answers RemoveUserFromGroup can give for user u.
RemoveAnswers(u) ==
    (IF exists /\ u \in live THEN {"ok"} ELSE {"NoSuchEntity"}) \cup {"error"}

(***************************************************************************)
(* Decisions of the handlers.                                              *)
(***************************************************************************)

\* Variant of ToRemove: every recorded user is removed, kept ones included.
ToRemove_AllOld(o, n) == o

\* os.Difference(ns)
ToRemove(o, n) == o \ n

\* ns.Difference(os)
ToAdd(o, n) == n \ o

\* d.HasChange("users")
HasChange(o, n) == o # n

\* Variant of UsersOf: only the first collected user is recorded.
UsersOf_FirstOnly(list) == IF list = <<>> THEN {} ELSE {list[1]}

\* d.Set("users", ul): the list becomes a set.
UsersOf(list) == Range(list)

\* Variant of Collect: each page replaces the users of the pages before it.
Collect_LastPageOnly(list, page) == page

\* ul = append(ul, *u.UserName) for every user of the page.
Collect(list, page) == list \o page

\* Variant of NextMarker: the marker of the response is not taken over.
NextMarker_Stale(respMarker) == NoMarker

\* marker = resp.Marker
NextMarker(respMarker) == respMarker

\* Variant of OnRemoveAnswer: NoSuchEntity is returned like any other error.
OnRemoveAnswer_NotFoundIsError(res) == IF res = "ok" THEN "next" ELSE "err"

\* Variant of OnRemoveAnswer: every error is tolerated like NoSuchEntity.
OnRemoveAnswer_AnyErrorTolerated(res) == IF res = "ok" THEN "next" ELSE "nil"

\* Where removeUsersFromGroup goes on an answer to RemoveUserFromGroup:
\* "next" (the next user of the loop), "nil" (return nil), "err" (return err).
OnRemoveAnswer(res) ==
    CASE res = "ok" -> "next"
      [] res = "NoSuchEntity" -> "nil"
      [] OTHER -> "err"

\* Variant of OnAddAnswer: the error of AddUserToGroup is dropped.
OnAddAnswer_ErrorDropped(res) == "next"

\* Where addUsersToGroup goes on an answer to AddUserToGroup.
OnAddAnswer(res) == IF res = "ok" THEN "next" ELSE "err"

\* Variant of MorePages: the loop of Read is never left.
MorePages_Always(truncated) == TRUE

\* if !*resp.IsTruncated { break }: Read asks for another page.
MorePages(truncated) == truncated

\* Variant of OnGetGroupAnswer: an error other than NoSuchEntity ends the
\* listing as if the last page had been read.
OnGetGroupAnswer_ErrorEndsListing(res) ==
    IF res = "NoSuchEntity" THEN "gone" ELSE "page"

\* Variant of OnGetGroupAnswer: NoSuchEntity is returned like any error.
OnGetGroupAnswer_NotFoundIsError(res) == IF res = "ok" THEN "page" ELSE "err"

\* What Read does on an answer to GetGroup: "page" (use the page),
\* "gone" (d.SetId("") and return nil), "err" (return err).
OnGetGroupAnswer(res) ==
    CASE res = "ok" -> "page"
      [] res = "NoSuchEntity" -> "gone"
      [] OTHER -> "err"

\* The handler is entered with the record and the group as they are.
Enter(o) ==
    /\ pc = "done"
    /\ op' = o
    /\ ret' = "none"
    /\ log' = <<>>
    /\ ul' = <<>>
    /\ marker' = NoMarker
    /\ others' = 0
    /\ UNCHANGED aws

\* The record and the group as the handler finds them; again: the handler is a
\* Delete entered right after a Delete of the same record that returned nil.
Snapshot(i, m) ==
    [exists |-> exists, live |-> live, id |-> i, members |-> m, again |-> FALSE]

Init ==
    /\ exists = TRUE
    /\ live = {}
    /\ id = ""
    /\ members = {}
    /\ group = ""
    /\ desired = {}
    /\ op = "none"
    /\ pc = "done"
    /\ ret = "none"
    /\ remove = {}
    /\ add = {}
    /\ ul = <<>>
    /\ marker = NoMarker
    /\ log = <<>>
    /\ old = [exists |-> TRUE, live |-> {}, id |-> "", members |-> {},
              again |-> FALSE]
    /\ others = 0

\* resourceAwsIamGroupMembershipCreate, up to the call of addUsersToGroup:
\* a new record (no identity, no state), the configured users to add.
CreateStart ==
    \E D \in SUBSET Users :
        /\ Enter("Create")
        /\ id' = ""
        /\ members' = {}
        /\ group' = GroupName
        /\ desired' = D
        /\ add' = D
        /\ remove' = {}
        /\ old' = Snapshot("", {})
        /\ pc' = "add"

\* resourceAwsIamGroupMembershipRead, up to the first GetGroup.
ReadStart ==
    /\ id # ""
    /\ Enter("Read")
    /\ add' = {}
    /\ remove' = {}
    /\ old' = Snapshot(id, members)
    /\ pc' = "read"
    /\ desired' = members
    /\ UNCHANGED <<id, members, group>>

\* resourceAwsIamGroupMembershipUpdate, up to the call of removeUsersFromGroup
\* (or of Read when the users did not change).
UpdateStart ==
    \E D \in SUBSET Users :
        /\ id # ""
        /\ Enter("Update")
        /\ desired' = D
        /\ old' = Snapshot(id, members)
        /\ IF HasChange(members, D)
           THEN /\ remove' = ToRemove(members, D)
                /\ add' = ToAdd(members, D)
                /\ pc' = "remove"
           ELSE /\ remove' = {}
                /\ add' = {}
                /\ pc' = "read"
        /\ UNCHANGED <<id, members, group>>

\* resourceAwsIamGroupMembershipDelete, up to the call of removeUsersFromGroup.
DeleteStart ==
    /\ id # ""
    /\ Enter("Delete")
    /\ remove' = members
    /\ add' = {}
    /\ old' = [Snapshot(id, members) EXCEPT !.again = (op = "Delete" /\ ret = "nil")]
    /\ pc' = "remove"
    /\ desired' = members
    /\ UNCHANGED <<id, members, group>>

\* Variant of ImportRejects: the empty identifier is accepted.
ImportRejects_Never(rawId) == FALSE

\* resourceAwsIamGroupMembershipImport: len(groupName) == 0
ImportRejects(rawId) == rawId = ""

\* resourceAwsIamGroupMembershipImport is entered with a new record that
\* carries the identifier as its identity and nothing else.
ImportStart ==
    \E rawId \in ImportIds :
        /\ Enter("Import")
        /\ id' = rawId
        /\ members' = {}
        /\ group' = ""
        /\ desired' = {}
        /\ add' = {}
        /\ remove' = {}
        /\ old' = Snapshot(rawId, {})
        /\ pc' = "import"

\* resourceAwsIamGroupMembershipImport: the format error (no record is
\* returned), or d.Set("group", groupName), d.SetId(resource.UniqueId()) and
\* the record returned.
Import ==
    /\ pc = "import"
    /\ IF ImportRejects(id)
       THEN /\ ret' = "error"
            /\ UNCHANGED <<id, group>>
       ELSE /\ group' = id
            /\ id' = UniqueId
            /\ ret' = "nil"
    /\ pc' = "done"
    /\ UNCHANGED <<exists, live, members, desired, op, remove, add, ul, marker,
                   log, old, others>>

\* removeUsersFromGroup returned nil: Update goes on to addUsersToGroup,
\* Delete returns nil.
RemoveReturnsNil ==
    IF op = "Update"
    THEN pc' = "add" /\ ret' = ret
    ELSE pc' = "done" /\ ret' = "nil"

\* removeUsersFromGroup: one turn of the loop, one RemoveUserFromGroup call.
RemoveUser ==
    /\ pc = "remove"
    /\ remove # {}
    /\ \E u \in remove : \E res \in RemoveAnswers(u) :
        /\ log' = Append(log, UserCall("RemoveUserFromGroup", u, res))
        /\ live' = IF res = "ok" THEN live \ {u} ELSE live
        /\ remove' = remove \ {u}
        /\ CASE OnRemoveAnswer(res) = "next" -> UNCHANGED <<pc, ret>>
             [] OnRemoveAnswer(res) = "nil" -> RemoveReturnsNil
             [] OTHER -> pc' = "done" /\ ret' = "error"
    /\ UNCHANGED <<exists, id, members, desired, group, op, add, ul, marker, old,
                   others>>

\* removeUsersFromGroup: the loop is over, return nil.
RemoveLoopEnd ==
    /\ pc = "remove"
    /\ remove = {}
    /\ RemoveReturnsNil
    /\ UNCHANGED <<exists, live, id, members, desired, group, op, remove, add, ul,
                   marker, log, old, others>>

\* addUsersToGroup: one turn of the loop, one AddUserToGroup call.
AddUser ==
    /\ pc = "add"
    /\ add # {}
    /\ \E u \in add : \E res \in AddAnswers(u) :
        /\ log' = Append(log, UserCall("AddUserToGroup", u, res))
        /\ live' = IF res = "ok" THEN live \cup {u} ELSE live
        /\ add' = add \ {u}
        /\ IF OnAddAnswer(res) = "next"
           THEN UNCHANGED <<pc, ret>>
           ELSE pc' = "done" /\ ret' = "error"
    /\ UNCHANGED <<exists, id, members, desired, group, op, remove, ul, marker, old,
                   others>>

\* Variant of IdAfterAdds: Create does not set the identity.
IdAfterAdds_NotSet(o, cur) == cur

\* The identity once addUsersToGroup returned nil: Create does
\* d.SetId(d.Get("name")), Update leaves it.
IdAfterAdds(o, cur) == IF o = "Create" THEN Name ELSE cur

\* addUsersToGroup: the loop is over, return nil; Create then sets the
\* identity; both Create and Update go on to Read.
AddLoopEnd ==
    /\ pc = "add"
    /\ add = {}
    /\ id' = IdAfterAdds(op, id)
    /\ pc' = "read"
    /\ UNCHANGED <<exists, live, members, desired, group, op, ret, remove, add, ul,
                   marker, log, old, others>>

\* resourceAwsIamGroupMembershipRead: one turn of the loop, one GetGroup
\* call; after the last page, d.Set("users", ul) and return nil.
ReadPage ==
    /\ pc = "read"
    /\ \E res \in GetGroupAnswers :
        LET page == IF res = "ok" THEN PageOf(marker) ELSE <<>>
            trunc == IF res = "ok" THEN TruncatedAt(marker) ELSE FALSE
            next == IF res = "ok" THEN MarkerAfter(marker) ELSE NoMarker
            todo == OnGetGroupAnswer(res)
        IN  /\ log' = Append(log, Call("GetGroup", marker, res, page, trunc, next))
            /\ CASE todo = "page" ->
                      /\ ul' = Collect(ul, page)
                      /\ IF MorePages(trunc)
                         THEN /\ marker' = NextMarker(next)
                              /\ UNCHANGED <<pc, ret, members>>
                         ELSE /\ members' = UsersOf(ul')
                              /\ pc' = "done"
                              /\ ret' = "nil"
                              /\ UNCHANGED marker
                      /\ UNCHANGED id
                 [] todo = "gone" ->
                      /\ id' = ""
                      /\ pc' = "done"
                      /\ ret' = "nil"
                      /\ UNCHANGED <<ul, marker, members>>
                 [] OTHER ->
                      /\ pc' = "done"
                      /\ ret' = "error"
                      /\ UNCHANGED <<ul, marker, members, id>>
    /\ UNCHANGED <<exists, live, desired, group, op, remove, add, old, others>>

(***************************************************************************)
(* Other actors on the same IAM group.                                     *)
(***************************************************************************)

Untouched == <<id, members, desired, group, op, pc, ret, remove, add, ul, marker,
               log, old>>

OtherAdds ==
    /\ others < MaxOther
    /\ exists
    /\ \E u \in Users \ live : live' = live \cup {u}
    /\ others' = others + 1
    /\ UNCHANGED <<exists, Untouched>>

OtherRemoves ==
    /\ others < MaxOther
    /\ \E u \in live : live' = live \ {u}
    /\ others' = others + 1
    /\ UNCHANGED <<exists, Untouched>>

OtherDeletesGroup ==
    /\ others < MaxOther
    /\ exists
    /\ exists' = FALSE
    /\ live' = {}
    /\ others' = others + 1
    /\ UNCHANGED Untouched

OtherCreatesGroup ==
    /\ others < MaxOther
    /\ ~exists
    /\ exists' = TRUE
    /\ live' = {}
    /\ others' = others + 1
    /\ UNCHANGED Untouched

Next ==
    \/ CreateStart
    \/ ReadStart
    \/ UpdateStart
    \/ DeleteStart
    \/ RemoveUser
    \/ RemoveLoopEnd
    \/ AddUser
    \/ AddLoopEnd
    \/ ReadPage
    \/ OtherAdds
    \/ OtherRemoves
    \/ OtherDeletesGroup
    \/ OtherCreatesGroup

Spec == Init /\ [][Next]_vars

\* A record brought in by Import and then refreshed by Read, as the importer
\* of the resource is used: Import, Read and the other actors on the group.
NextImport ==
    \/ ImportStart
    \/ Import
    \/ ReadStart
    \/ ReadPage
    \/ OtherAdds
    \/ OtherRemoves
    \/ OtherDeletesGroup
    \/ OtherCreatesGroup

ImportSpec == Init /\ [][NextImport]_vars

\* Read is straight-line code around blocking GetGroup calls that return: a
\* turn of its loop that can be taken is taken.
ReadFairSpec == ImportSpec /\ WF_vars(ReadPage)

TypeOK ==
    /\ exists \in BOOLEAN
    /\ live \subseteq Users
    /\ id \in {"", Name, UniqueId, GroupName}
    /\ group \in {"", GroupName}
    /\ members \subseteq Users
    /\ desired \subseteq Users
    /\ op \in {"none", "Create", "Read", "Update", "Delete", "Import"}
    /\ pc \in {"remove", "add", "read", "import", "done"}
    /\ ret \in {"none", "nil", "error"}

(***************************************************************************)
(* Vocabulary of the properties.                                           *)
(***************************************************************************)

\* The handler o has returned.
Returned(o) == op = o /\ pc = "done" /\ ret # "none"

\* Positions of log that hold a call of the given API.
CallsOf(name) == {i \in DOMAIN log : log[i].call = name}

\* Users for which the given API was called, and for which it answered res.
UsersCalled(name) == {log[i].arg : i \in CallsOf(name)}
UsersAnswered(name, res) == {log[i].arg : i \in {j \in CallsOf(name) : log[j].res = res}}

\* The GetGroup calls of log, in order.
IsGetGroup(c) == c.call = "GetGroup"
Listing == SelectSeq(log, IsGetGroup)

RECURSIVE PagesUnion(_)
PagesUnion(g) ==
    IF g = <<>> THEN {} ELSE Range(Head(g).page) \cup PagesUnion(Tail(g))

\* The last API call of the handler.
LastCall == log[Len(log)]

\* C1: an Update that returns without error has issued a remove call for
\* exactly the users of O \ D and an add call for exactly the users of D \ O,
\* each user once, every remove call before the first add call, whatever the
\* live membership and also when a remove call answers NoSuchEntity.
C1_UpdateIssuesExactDelta ==
    (Returned("Update") /\ ret = "nil") =>
        /\ UsersCalled("RemoveUserFromGroup") = old.members \ desired
        /\ Cardinality(CallsOf("RemoveUserFromGroup")) = Cardinality(old.members \ desired)
        /\ UsersCalled("AddUserToGroup") = desired \ old.members
        /\ Cardinality(CallsOf("AddUserToGroup")) = Cardinality(desired \ old.members)
        /\ \A i \in CallsOf("RemoveUserFromGroup") :
              \A j \in CallsOf("AddUserToGroup") : i < j

\* C2: when Delete returns without error and nobody else changed the group,
\* no recorded member is a member of the group (NoSuchEntity for one user
\* counts as success and the removal of the others continues); an error other
\* than NoSuchEntity aborts Delete and is returned.
C2_DeleteRemovesEveryMember ==
    Returned("Delete") =>
        /\ (ret = "nil" /\ ~interfered) => old.members \cap live = {}
        /\ (log # <<>> /\ LastCall.res = "error") => ret = "error"

\* C3 as stated: after an error-free Create on an existing group, whatever
\* its membership before the call, with no other actor changing the group,
\* the record's members equal D.
C3_CreateYieldsDesired ==
    (Returned("Create") /\ ret = "nil" /\ old.exists /\ ~interfered) =>
        members = desired

\* C3 amended: after an error-free Create on an existing group, with no other
\* actor changing the group, the record's members equal D together with the
\* users that were members of the group before the call.
C3_CreateYieldsDesiredAndPrior ==
    (Returned("Create") /\ ret = "nil" /\ old.exists /\ ~interfered) =>
        members = desired \cup old.live

C3_Witness ==
    /\ Returned("Create") /\ ret = "nil" /\ old.exists /\ ~interfered
    /\ desired # {}
    /\ old.live \ desired # {}
    /\ Len(Listing) > 1

\* C4: whenever the last Create, Read or Update returned without error and
\* left a non-empty identity, and no other actor has changed the group since
\* that call was entered, the record's members equal the live membership.
C4_ReconciledEqualsLive ==
    (/\ op \in {"Create", "Read", "Update"}
     /\ pc = "done"
     /\ ret = "nil"
     /\ id # ""
     /\ ~interfered) => members = live

C4_Witness ==
    /\ Returned("Update") /\ ret = "nil" /\ id # "" /\ ~interfered
    /\ UsersAnswered("RemoveUserFromGroup", "ok") # {}
    /\ UsersAnswered("AddUserToGroup", "ok") # {}
    /\ Cardinality(members) > 1

\* C5: if the live membership equals O when Update(O, D) starts, no other
\* actor changes the group and every API call succeeds, then when Update
\* returns the live membership and the record's members both equal D.
C5_UpdateConverges ==
    (/\ Returned("Update")
     /\ old.live = old.members
     /\ ~interfered
     /\ \A i \in DOMAIN log : log[i].res = "ok") =>
        /\ ret = "nil"
        /\ live = desired
        /\ members = desired

C5_Witness ==
    /\ Returned("Update") /\ old.live = old.members /\ ~interfered
    /\ \A i \in DOMAIN log : log[i].res = "ok"
    /\ old.members \ desired # {}
    /\ desired \ old.members # {}
    /\ old.members \cap desired # {}

\* C6: during an Update from O to D no user of D \ O is in the group while a
\* user of O \ D is still a member (checked for Updates during which no other
\* actor changed the group).
C6_NoTransientOverMembership ==
    (op = "Update" /\ ~interfered) =>
        \/ UsersAnswered("AddUserToGroup", "ok") \cap live = {}
        \/ (old.members \ desired) \cap live = {}

\* C7: when GetGroup answers NoSuchEntity, on the first page or a later one,
\* Read clears the identity and returns nil; when GetGroup fails with any
\* other error, Read returns the error and leaves the identity as it was.
C7_ReadOnListingFailure ==
    [][(pc = "read" /\ pc' = "done") =>
          /\ log'[Len(log')].res = "NoSuchEntity" => (id' = "" /\ ret' = "nil")
          /\ log'[Len(log')].res = "error" => (id' = id /\ ret' = "error")
          /\ log'[Len(log')].res \in {"NoSuchEntity", "error"} => members' = members]_vars

C7_Witness ==
    /\ pc = "done" /\ ret = "nil" /\ id = ""
    /\ Len(Listing) > 1
    /\ LastCall.call = "GetGroup" /\ LastCall.res = "NoSuchEntity"
    /\ old.id # ""

\* C8: Read requests the first page with no marker and each following page
\* with the marker the page before returned, goes on exactly while pages are
\* truncated, and on success sets the members to the union of all pages.
C8_ReadPaginates ==
    LET g == Listing
    IN  /\ g # <<>> => g[1].arg = NoMarker
        /\ \A i \in 2..Len(g) : g[i].arg = g[i-1].next /\ g[i-1].trunc
        /\ \A i \in 1..Len(g) :
              (g[i].res = "ok" /\ ~g[i].trunc) => (i = Len(g) /\ pc = "done")
        /\ (pc = "done" /\ g # <<>> /\ g[Len(g)].res = "ok") =>
              /\ ~g[Len(g)].trunc
              /\ ret = "nil"
              /\ members = PagesUnion(g)

C8_Witness ==
    /\ pc = "done" /\ ret = "nil"
    /\ Len(Listing) >= 3
    /\ LastCall.res = "ok"
    /\ Cardinality(members) >= 3

\* Positions of log where the given API answered with an error other than
\* NoSuchEntity.
Failed(name) == {i \in CallsOf(name) : log[i].res = "error"}

\* C9: a remove call of Update that fails with an error other than
\* NoSuchEntity is the last call of Update: Update returns the error with no
\* further remove, no add and no Read; a failed add call is the last call
\* too: no further add and no Read. The record's members stay as they were.
C9_UpdateAbortsOnFailure ==
    op = "Update" =>
        /\ \A i \in Failed("RemoveUserFromGroup") :
              /\ i = Len(log)
              /\ CallsOf("AddUserToGroup") = {}
        /\ \A i \in Failed("AddUserToGroup") : i = Len(log)
        /\ (Failed("RemoveUserFromGroup") \cup Failed("AddUserToGroup") # {}) =>
              /\ pc = "done"
              /\ ret = "error"
              /\ CallsOf("GetGroup") = {}
              /\ members = old.members

C9_Witness ==
    /\ Returned("Update")
    /\ Failed("AddUserToGroup") # {}
    /\ UsersAnswered("AddUserToGroup", "ok") # {}
    /\ UsersAnswered("RemoveUserFromGroup", "ok") # {}

\* C10: an add call that fails in Create is the last call of Create: Create
\* returns the error, issues no further add call and no remove call, and the
\* users added by the earlier calls are still members of the group (unless
\* another actor changed the group meanwhile).
C10_CreateLeavesPartialAdds ==
    (op = "Create" /\ Failed("AddUserToGroup") # {}) =>
        /\ \A i \in Failed("AddUserToGroup") : i = Len(log)
        /\ pc = "done"
        /\ ret = "error"
        /\ CallsOf("RemoveUserFromGroup") = {}
        /\ ~interfered => UsersAnswered("AddUserToGroup", "ok") \subseteq live

C10_Witness ==
    /\ Returned("Create") /\ ret = "error"
    /\ Failed("AddUserToGroup") # {}
    /\ UsersAnswered("AddUserToGroup", "ok") \ old.live # {}
    /\ UsersAnswered("AddUserToGroup", "ok") \subseteq live
    /\ add # {}

\* C11: a Delete run again right after an error-free Delete of the same
\* record, with every recorded user already out of the group and every
\* removal answering NoSuchEntity, returns nil and leaves the live membership
\* as it was.
C11_DeleteAgainIsHarmless ==
    (/\ Returned("Delete")
     /\ old.again
     /\ old.members \cap old.live = {}
     /\ ~interfered
     /\ \A i \in DOMAIN log : log[i].res = "NoSuchEntity") =>
        /\ ret = "nil"
        /\ live = old.live

C11_Witness ==
    /\ Returned("Delete") /\ old.again /\ ~interfered
    /\ Cardinality(old.members) >= 2
    /\ old.members \cap old.live = {}
    /\ old.live # {}
    /\ log # <<>>
    /\ \A i \in DOMAIN log : log[i].res = "NoSuchEntity"
    /\ ret = "nil"

\* C12: Import with an empty identifier returns the format error and sets
\* nothing on the record; Import with a non-empty identifier g returns the
\* record with group g, a generated non-empty identity other than g and no
\* members set; Import calls no API and leaves the group alone.
C12_ImportByGroupName ==
    Returned("Import") =>
        /\ log = <<>>
        /\ ~interfered => (live = old.live /\ exists = old.exists)
        /\ members = {}
        /\ old.id = "" => (ret = "error" /\ id = "" /\ group = "")
        /\ old.id # "" =>
              /\ ret = "nil"
              /\ group = old.id
              /\ id = UniqueId
              /\ id # ""
              /\ id # old.id

C12_Witness ==
    /\ Returned("Import") /\ ret = "nil"
    /\ old.id = GroupName /\ group = GroupName /\ id = UniqueId
    /\ old.live # {}

\* C13 as stated: whenever Create returns without error the identity is the
\* configured name, for every D, the empty set included, and every state of
\* the group, a group that does not exist included.
C13_CreateSetsIdentity ==
    (Returned("Create") /\ ret = "nil") => id = Name

\* C13 amended: whenever Create returns without error the identity is the
\* configured name, unless the listing of its final Read answered
\* NoSuchEntity, in which case the identity is empty.
C13_CreateSetsIdentityUnlessGone ==
    (Returned("Create") /\ ret = "nil") =>
        /\ log # <<>>
        /\ LastCall.call = "GetGroup"
        /\ id = IF LastCall.res = "NoSuchEntity" THEN "" ELSE Name
        /\ Name # ""

C13_Witness ==
    /\ Returned("Create") /\ ret = "nil" /\ ~interfered
    /\ desired = {}
    /\ ~old.exists
    /\ id = ""
    /\ Len(log) = 1

\* C14: Read terminates: a Read that has been entered eventually returns
\* (the listing is finite, or a request fails); it issues one request per page
\* (the markers of its requests strictly increase) and none after a page that
\* is not truncated.
C14_ReadTerminates ==
    /\ (pc = "read") ~> (pc = "done")
    /\ [](\A i \in 1..Len(Listing) : \A j \in 1..Len(Listing) :
            i < j => /\ Listing[i].arg < Listing[j].arg
                     /\ Listing[i].res = "ok"
                     /\ Listing[i].trunc)

C14_Witness ==
    /\ Returned("Read") /\ ret = "nil"
    /\ Len(Listing) >= 3
    /\ ~LastCall.trunc

\* C15: Read writes the record's members only after the last page: while the
\* listing goes on, and when a page request fails (NoSuchEntity or any other
\* error), also after earlier pages succeeded, the members are those the
\* handler was entered with.
C15_ReadWritesMembersAtEnd ==
    /\ pc = "read" => members = old.members
    /\ (pc = "done" /\ log # <<>> /\ LastCall.call = "GetGroup"
          /\ LastCall.res # "ok") => members = old.members

C15_Witness ==
    /\ Returned("Read") /\ ret = "error"
    /\ Len(Listing) >= 2
    /\ LastCall.res = "error"
    /\ UsersOf(ul) # {}
    /\ UsersOf(ul) # members
    /\ members = old.members

\* C16: when Create returns an error because an add call failed, the identity
\* is still empty, also when users of D have been added to the group.
C16_FailedCreateHasNoIdentity ==
    (op = "Create" /\ Failed("AddUserToGroup") # {}) => id = ""

C16_Witness ==
    /\ Returned("Create") /\ ret = "error" /\ ~interfered
    /\ Failed("AddUserToGroup") # {}
    /\ Cardinality(UsersAnswered("AddUserToGroup", "ok") \ old.live) >= 2
    /\ UsersAnswered("AddUserToGroup", "ok") \subseteq live
    /\ id = ""

====
